---- MODULE Spec2Model ----
(***************************************************************************)
(* The python-fastapi template of mITyFactory: the in-memory item service  *)
(* (src/services/example.py), its HTTP routes (src/api/routes.py), the     *)
(* request schema (src/models/schemas.py) and the health probes            *)
(* (src/api/health.py).                                                    *)
(*                                                                         *)
(* Python values are represented as follows.                               *)
(*   str            [ch, len], the string of len copies of one character   *)
(*   Optional[T]    None is <<>>, a present value x is <<x>>               *)
(*   list[T]        a sequence                                             *)
(*   dict[str, T]   a sequence of [key, val] entries in insertion order    *)
(*   datetime       a natural number, a reading of the wall clock          *)
(*   item ids       0 stands for a path string that is no UUID             *)
(*                  ("nonexistent"); k in 1..NumUUIDs names the k-th       *)
(*                  string uuid4() returns                                 *)
(***************************************************************************)
EXTENDS Integers, Sequences, FiniteSets, TLC

\* ---------------------------------------------------------------- bounds
NumUUIDs == 2
MaxTime == 1
MaxReq == 3

\* ------------------------------------------------------ program constants
NameMinLength == 1
NameMaxLength == 100
DescriptionMaxLength == 500

VARIABLES
    items,          \* ExampleService._items of the module singleton `service`
    issued,         \* the ids uuid4() has returned so far
    last,           \* the last completed call: its arguments, result and response
    nCreated,       \* history: create_item calls so far
    nDeleted,       \* history: delete_item calls that returned True
    birth,          \* history: stored id -> the created_at create_item gave it
    fresh,          \* history: stored, never updated id -> the Item object
                    \* create_item returned
    updated,        \* history: stored ids update_item has replaced
    deleted,        \* history: ids for which delete_item returned True
    held,           \* ids whose stored Item object a caller of the service
                    \* holds a reference to
    inflight,       \* requests in flight: the handlers started and not finished
    submitted       \* requests in flight: how many have arrived so far

vars == <<items, issued, last, nCreated, nDeleted, birth, fresh, updated,
          deleted, held, inflight, submitted>>

history == <<nCreated, nDeleted, birth, fresh, updated, deleted>>
concurrent == <<inflight, submitted>>

\* ------------------------------------------------------------ Python values
None == <<>>
Some(x) == <<x>>

\* A str is a run of one character: the character and the length. The
\* schema reads a string's length and nothing else of it.
Rep(c, n) == [ch |-> c, len |-> n]
len(s) == s.len

UUIDs == 1..NumUUIDs
PathIds == 0..NumUUIDs
Times == 0..MaxTime

\* dict operations on a sequence of [key, val] entries
Keys(d) == {d[i].key : i \in 1..Len(d)}
Index(d, k) == CHOOSE i \in 1..Len(d) : d[i].key = k
DictGet(d, k) == IF k \in Keys(d) THEN Some(d[Index(d, k)].val) ELSE None
\* Mutant of DictSet: the entry is appended even when the key is present.
DictSetAppends(d, k, v) == Append(d, [key |-> k, val |-> v])
DictSet(d, k, v) ==
    IF k \in Keys(d)
    THEN [d EXCEPT ![Index(d, k)] = [key |-> k, val |-> v]]
    ELSE Append(d, [key |-> k, val |-> v])
\* Mutant of DictDel: the oldest entry goes, whatever the key.
DictDelFirst(d, k) == Tail(d)
DictDel(d, k) ==
    LET n == Index(d, k)
    IN  [i \in 1..(Len(d) - 1) |-> IF i < n THEN d[i] ELSE d[i + 1]]
Values(d) == [i \in 1..Len(d) |-> d[i].val]

\* ------------------------------------------------------------------ schemas
\* Item(...): the response model, built field by field from keyword arguments.
Item(id, name, description, tags, created_at, updated_at) ==
    [id |-> id, name |-> name, description |-> description, tags |-> tags,
     created_at |-> created_at, updated_at |-> updated_at]

\* Mutant of ValidName: the upper limit is taken as exclusive.
ValidNameExclusive(body) ==
    IF body.name = None
    THEN FALSE
    ELSE /\ len(body.name[1]) >= NameMinLength
         /\ len(body.name[1]) < NameMaxLength

\* ItemBase.name: a required str with min_length and max_length.
ValidName(body) ==
    IF body.name = None
    THEN FALSE
    ELSE /\ len(body.name[1]) >= NameMinLength
         /\ len(body.name[1]) <= NameMaxLength

\* ItemBase.description: an Optional[str], default None, with max_length.
ValidDescription(body) ==
    IF body.description = None
    THEN TRUE
    ELSE len(body.description[1]) <= DescriptionMaxLength

\* Whether a JSON body validates against ItemCreate.
Validates(body) == ValidName(body) /\ ValidDescription(body)

\* The ItemCreate a validated body becomes; tags defaults to an empty list.
ItemCreate(body) ==
    [name |-> body.name[1],
     description |-> body.description,
     tags |-> IF body.tags = None THEN <<>> ELSE body.tags[1]]

\* The JSON bodies a client posts: the two ends of the valid range and one
\* body for each way of leaving it.
Body(name, description, tags) ==
    [name |-> name, description |-> description, tags |-> tags]
Bodies ==
    { Body(Some(Rep("a", NameMinLength)), None, None),
      Body(Some(Rep("b", NameMaxLength)),
           Some(Rep("d", DescriptionMaxLength)), Some(<<Rep("t", 4), Rep("e", 7)>>)),
      Body(None, Some(Rep("d", 11)), None),
      Body(Some(Rep("a", NameMinLength - 1)), None, None),
      Body(Some(Rep("b", NameMaxLength + 1)), None, Some(<<Rep("t", 4)>>)),
      Body(Some(Rep("T", 9)), Some(Rep("d", DescriptionMaxLength + 1)), None) }
ItemCreates == {ItemCreate(b) : b \in {x \in Bodies : Validates(x)}}

\* ------------------------------------------------------------ ExampleService
\* uuid.uuid4(): the identifiers it can return, given those it has returned.
\* 122 random bits: a repeated value is not an outcome the model considers.
\* The code uses an id only as a key, so the k-th value returned is named k.
uuid4(returned) == {Cardinality(returned) + 1} \cap UUIDs

\* datetime.utcnow(): the readings the wall clock can give. It is the system's
\* real-time clock, which can be set back between two calls, so a reading is
\* not bounded by the earlier ones.
utcnow == Times

\* list_items: a new list holding the stored items in the dict's order.
list_items(d) == Values(d)

\* get_item: dict.get, the stored item or None.
get_item(d, item_id) == DictGet(d, item_id)

\* Mutant of create_item: updated_at starts as the creation time.
create_item_stamps_update(d, item_create, item_id, t) ==
    LET item == Item(item_id, item_create.name, item_create.description,
                     item_create.tags, t, Some(t))
    IN  [store |-> DictSet(d, item_id, item), ret |-> Some(item),
         raised |-> FALSE]

\* Mutant of create_item: the description is not copied from the payload.
create_item_drops_description(d, item_create, item_id, t) ==
    LET item == Item(item_id, item_create.name, None, item_create.tags, t,
                     None)
    IN  [store |-> DictSet(d, item_id, item), ret |-> Some(item),
         raised |-> FALSE]

\* create_item: store a new Item under the generated id and return it.
create_item(d, item_create, item_id, t) ==
    LET item == Item(item_id, item_create.name, item_create.description,
                     item_create.tags, t, None)
    IN  [store |-> DictSet(d, item_id, item), ret |-> Some(item),
         raised |-> FALSE]

\* update_item, line 82: the presence check.
update_check(d, item_id) == item_id \in Keys(d)

\* Mutant of update_write: created_at is stamped anew instead of carried over.
update_write_restamps(d, item_id, item_update, t) ==
    IF item_id \notin Keys(d)
    THEN [store |-> d, ret |-> None, raised |-> TRUE]
    ELSE LET upd == Item(item_id, item_update.name, item_update.description,
                         item_update.tags, t, Some(t))
         IN  [store |-> DictSet(d, item_id, upd), ret |-> Some(upd),
              raised |-> FALSE]

\* update_item, lines 85-98: read the existing item, build the replacement,
\* store and return it. self._items[item_id] raises KeyError for an absent key.
update_write(d, item_id, item_update, t) ==
    IF item_id \notin Keys(d)
    THEN [store |-> d, ret |-> None, raised |-> TRUE]
    ELSE LET existing == DictGet(d, item_id)[1]
             upd == Item(item_id, item_update.name, item_update.description,
                         item_update.tags, existing.created_at, Some(t))
         IN  [store |-> DictSet(d, item_id, upd), ret |-> Some(upd),
              raised |-> FALSE]

\* Mutant of update_item: an absent id is created instead of reported.
update_item_upserts(d, item_id, item_update, t) ==
    IF ~update_check(d, item_id)
    THEN LET upd == Item(item_id, item_update.name, item_update.description,
                         item_update.tags, t, Some(t))
         IN  [store |-> DictSet(d, item_id, upd), ret |-> Some(upd),
              raised |-> FALSE]
    ELSE update_write(d, item_id, item_update, t)

\* update_item as one call: the check and the write run back to back.
update_item(d, item_id, item_update, t) ==
    IF ~update_check(d, item_id)
    THEN [store |-> d, ret |-> None, raised |-> FALSE]
    ELSE update_write(d, item_id, item_update, t)

\* delete_item, line 110: the presence check.
delete_check(d, item_id) == item_id \in Keys(d)

\* delete_item, lines 111-113: del self._items[item_id] (KeyError for an
\* absent key), then return True.
delete_remove(d, item_id) ==
    IF item_id \notin Keys(d)
    THEN [store |-> d, ret |-> FALSE, raised |-> TRUE]
    ELSE [store |-> DictDel(d, item_id), ret |-> TRUE, raised |-> FALSE]

\* delete_item as one call.
delete_item(d, item_id) ==
    IF delete_check(d, item_id)
    THEN delete_remove(d, item_id)
    ELSE [store |-> d, ret |-> FALSE, raised |-> FALSE]

\* Mutant of refs_create: create_item returns a copy of what it stored.
refs_create_copy(item_id) == {}

\* The stored Item objects a returned value refers to, by id. create_item
\* returns the object it has just stored (lines 66 and 69).
refs_create(item_id) == {item_id}

\* get_item returns what dict.get returns: the stored object.
refs_get(d, item_id) == Keys(d) \cap {item_id}

\* update_item returns the object it has just stored (lines 95 and 98).
refs_update(d, item_id) == Keys(d) \cap {item_id}

\* list_items returns a new list, list(...), of the stored objects.
refs_list(d) == Keys(d)

\* ------------------------------------------------------------ health probes
\* Mutant of health_check: another status word.
health_check_ok(t) == [status |-> "ok", timestamp |-> t, version |-> "0.1.0"]

\* health_check: HealthResponse(status, timestamp, version).
health_check(t) == [status |-> "healthy", timestamp |-> t, version |-> "0.1.0"]

\* readiness_check: the named checks, and ready = all(checks.values()).
readiness_checks == [api |-> TRUE]
all(checks) == \A k \in DOMAIN checks : checks[k]
readiness_check == [ready |-> all(readiness_checks), checks |-> readiness_checks]

\* liveness_check
liveness_check == [status |-> "alive"]

\* ------------------------------------------------------------------- state
\* What a step records in `last`: the call, the clock reading it took (if
\* any), whether the service was called, what the service returned, and the
\* HTTP status and body of the response.
Call(op, item_id, arg, t, called, ret, status, resp) ==
    [op |-> op, item_id |-> item_id, arg |-> arg, t |-> t, called |-> called,
     ret |-> ret, status |-> status, resp |-> resp]
NotFound == [detail |-> "Item not found"]
IsOp(rec, op) == rec.op = op

\* A function without / with one more entry.
Without(f, k) == [x \in DOMAIN f \ {k} |-> f[x]]
With(f, k, v) == [x \in DOMAIN f \cup {k} |-> IF x = k THEN v ELSE f[x]]

Init ==
    /\ items = <<>>
    /\ issued = {}
    /\ last = Call("start", 0, None, None, FALSE, None, 0, None)
    /\ nCreated = 0
    /\ nDeleted = 0
    /\ birth = <<>>
    /\ fresh = <<>>
    /\ updated = {}
    /\ deleted = {}
    /\ held = {}
    /\ inflight = <<>>
    /\ submitted = 0

\* ------------------------------------------------------------------ routes
\* GET / : the static welcome message.
Root ==
    /\ last' = Call("GET /", 0, None, None, FALSE, None, 200,
                    [message |-> "Welcome to {{project_name}} API"])
    /\ UNCHANGED <<items, issued, history, held, concurrent>>

\* GET /items : ItemList(items=items, total=len(items)).
ListItems ==
    LET its == list_items(items)
    IN  /\ last' = Call("GET /items", 0, None, None, TRUE, its, 200,
                        [items |-> its, total |-> Len(its)])
        /\ held' = held \cup refs_list(items)
        /\ UNCHANGED <<items, issued, history, concurrent>>

\* GET /items/{item_id} : the item, or 404 when get_item returns None.
GetItem(item_id) ==
    LET item == get_item(items, item_id)
    IN  /\ last' = IF item = None
                   THEN Call("GET /items/{id}", item_id, None, None, TRUE,
                             item, 404, NotFound)
                   ELSE Call("GET /items/{id}", item_id, None, None, TRUE,
                             item, 200, item[1])
        /\ held' = held \cup refs_get(items, item_id)
        /\ UNCHANGED <<items, issued, history, concurrent>>

\* POST /items with a body that does not validate against ItemCreate: the
\* framework answers 422 and the handler does not run.
RejectBody(body) ==
    /\ ~Validates(body)
    /\ last' = Call("POST /items", 0, body, None, FALSE, None, 422,
                    [detail |-> "validation error"])
    /\ UNCHANGED <<items, issued, history, held, concurrent>>

\* POST /items with a body that validates: the handler calls create_item
\* and answers 201.
PostItem(body) ==
    /\ Validates(body)
    /\ \E item_id \in uuid4(issued), t \in utcnow :
         LET r == create_item(items, ItemCreate(body), item_id, t)
         IN  /\ items' = r.store
             /\ issued' = issued \cup {item_id}
             /\ last' = Call("POST /items", item_id, body, Some(t), TRUE,
                             r.ret, 201, r.ret[1])
             /\ nCreated' = nCreated + 1
             /\ birth' = With(birth, item_id, t)
             /\ fresh' = With(fresh, item_id, r.ret[1])
             /\ updated' = updated \ {item_id}
             /\ held' = (held \ {item_id}) \cup refs_create(item_id)
    /\ UNCHANGED <<nDeleted, deleted, concurrent>>

\* Mutant of suspension_points: update_item and delete_item await something
\* between the presence check and the write.
suspension_points_after_check(op) == {"check"}

\* The places where a service method awaits, and so lets the event loop run
\* another handler, between its presence check and its write: none. The
\* methods are coroutines without an await, and the routes await them
\* directly, which does not yield to the loop.
suspension_points(op) == {}

\* ExampleService.update_item, called on the service (no route exposes it).
\* The clock is read only once the id has been found.
UpdateItem(item_id, item_update) ==
    \/ /\ ~update_check(items, item_id)
       /\ LET r == update_item(items, item_id, item_update, 0)
          IN  /\ items' = r.store
              /\ last' = Call("update_item", item_id, item_update, None, TRUE,
                              r.ret, 0, None)
              /\ held' = held \cup refs_update(r.store, item_id)
       /\ UNCHANGED <<issued, history, concurrent>>
    \/ /\ update_check(items, item_id)
       /\ \E t \in utcnow :
            LET r == update_item(items, item_id, item_update, t)
            IN  /\ items' = r.store
                /\ last' = Call("update_item", item_id, item_update, Some(t),
                                TRUE, r.ret, 0, None)
                /\ updated' = IF r.ret # None
                              THEN updated \cup {item_id} ELSE updated
                /\ fresh' = IF r.ret # None
                            THEN Without(fresh, item_id) ELSE fresh
                /\ held' = (held \ {item_id}) \cup refs_update(r.store, item_id)
       /\ UNCHANGED <<issued, nCreated, nDeleted, birth, deleted, concurrent>>

\* DELETE /items/{item_id} : 204, or 404 when delete_item returns False.
DeleteItem(item_id) ==
    LET r == delete_item(items, item_id)
    IN  /\ items' = r.store
        /\ last' = IF r.ret
                   THEN Call("DELETE /items/{id}", item_id, None, None, TRUE,
                             r.ret, 204, None)
                   ELSE Call("DELETE /items/{id}", item_id, None, None, TRUE,
                             r.ret, 404, NotFound)
        /\ nDeleted' = IF r.ret THEN nDeleted + 1 ELSE nDeleted
        /\ deleted' = IF r.ret THEN deleted \cup {item_id} ELSE deleted
        /\ birth' = IF r.ret THEN Without(birth, item_id) ELSE birth
        /\ fresh' = IF r.ret THEN Without(fresh, item_id) ELSE fresh
        /\ updated' = IF r.ret THEN updated \ {item_id} ELSE updated
        /\ held' = IF r.ret THEN held \ {item_id} ELSE held
        /\ UNCHANGED <<issued, nCreated, concurrent>>

\* GET /health
HealthCheck ==
    \E t \in utcnow :
        /\ last' = Call("GET /health", 0, None, Some(t), FALSE, None, 200,
                        health_check(t))
        /\ UNCHANGED <<items, issued, history, held, concurrent>>

\* GET /ready
ReadinessCheck ==
    /\ last' = Call("GET /ready", 0, None, None, FALSE, None, 200,
                    readiness_check)
    /\ UNCHANGED <<items, issued, history, held, concurrent>>

\* GET /live
LivenessCheck ==
    /\ last' = Call("GET /live", 0, None, None, FALSE, None, 200,
                    liveness_check)
    /\ UNCHANGED <<items, issued, history, held, concurrent>>

\* ----------------------------------------------- a caller of the service
\* Item is a mutable model: whoever holds a stored object can assign to its
\* fields. Here the holder overwrites name, description and tags. The object
\* create_item returned is this same object, so `fresh` shows the change.
CallerMutatesItem(item_id, payload) ==
    /\ item_id \in held
    /\ item_id \in Keys(items)
    /\ LET i == Index(items, item_id)
           old == items[i].val
           new == [old EXCEPT !.name = payload.name,
                              !.description = payload.description,
                              !.tags = payload.tags]
       IN  /\ new # old
           /\ items' = [items EXCEPT ![i].val = new]
           /\ last' = Call("caller: item.name, .description, .tags = ...",
                           item_id, payload, None, FALSE, Some(new), 0, None)
    /\ fresh' = IF item_id \in DOMAIN fresh
                THEN With(fresh, item_id, items'[Index(items, item_id)].val)
                ELSE fresh
    /\ UNCHANGED <<issued, nCreated, nDeleted, birth, updated, deleted, held,
                   concurrent>>

\* The caller removes the last element of the list list_items returned. The
\* list was built by list(...) for this call; the dict is another object.
CallerMutatesList ==
    /\ IsOp(last, "GET /items")
    /\ Len(last.ret) > 0
    /\ last' = [last EXCEPT !.op = "caller: list.pop()",
                            !.ret = SubSeq(last.ret, 1, Len(last.ret) - 1)]
    /\ UNCHANGED <<items, issued, history, held, concurrent>>

\* ------------------------------------------------------ requests in flight
\* A request that has arrived: its handler, its arguments and where the
\* handler stands ("ready": not started; "checked": suspended after the
\* presence check).
Request(op, item_id, arg) ==
    [op |-> op, item_id |-> item_id, arg |-> arg, pc |-> "ready"]
ServiceOps ==
    {"POST /items", "GET /items/{id}", "update_item", "DELETE /items/{id}"}
Requests ==
    {Request("POST /items", 0, c) : c \in ItemCreates}
    \cup {Request("GET /items/{id}", id, None) : id \in PathIds}
    \cup {Request("update_item", id, c) : id \in PathIds, c \in ItemCreates}
    \cup {Request("DELETE /items/{id}", id, None) : id \in PathIds}

\* What a handler does from where it stands until it returns or suspends:
\* the store it leaves, what it returns, whether it raised, and where it
\* stands then.
Finished(r) == [store |-> r.store, ret |-> r.ret, raised |-> r.raised,
                pc |-> "done"]
Segment(q, d, new_id, t) ==
    CASE q.op = "POST /items" ->
           Finished(create_item(d, q.arg, new_id, t))
      [] q.op = "GET /items/{id}" ->
           Finished([store |-> d, ret |-> get_item(d, q.item_id),
                     raised |-> FALSE])
      [] q.op = "update_item" ->
           IF q.pc = "ready" /\ ~update_check(d, q.item_id)
           THEN Finished([store |-> d, ret |-> None, raised |-> FALSE])
           ELSE IF q.pc = "ready" /\ "check" \in suspension_points(q.op)
           THEN [store |-> d, ret |-> None, raised |-> FALSE,
                 pc |-> "checked"]
           ELSE Finished(update_write(d, q.item_id, q.arg, t))
      [] q.op = "DELETE /items/{id}" ->
           IF q.pc = "ready" /\ ~delete_check(d, q.item_id)
           THEN Finished([store |-> d, ret |-> FALSE, raised |-> FALSE])
           ELSE IF q.pc = "ready" /\ "check" \in suspension_points(q.op)
           THEN [store |-> d, ret |-> FALSE, raised |-> FALSE,
                 pc |-> "checked"]
           ELSE Finished(delete_remove(d, q.item_id))

\* A request arrives while others are in flight.
Submit(q) ==
    /\ submitted < MaxReq
    /\ submitted' = submitted + 1
    /\ inflight' = Append(inflight, q)
    /\ last' = Call("arrives", q.item_id, q.arg, None, FALSE, None, 0, None)
    /\ UNCHANGED <<items, issued, history, held>>

\* The event loop runs the handler of one request in flight until it returns
\* or suspends. A handler that returns answers its request; one that raises
\* answers 500.
RunHandler(i) ==
    LET q == inflight[i]
    IN  \E new_id \in (IF q.op = "POST /items" THEN uuid4(issued) ELSE {0}),
           t \in utcnow :
            LET s == Segment(q, items, new_id, t)
                rest == [k \in 1..(Len(inflight) - 1) |->
                           IF k < i THEN inflight[k] ELSE inflight[k + 1]]
            IN  /\ items' = s.store
                /\ issued' = IF q.op = "POST /items"
                             THEN issued \cup {new_id} ELSE issued
                /\ inflight' = IF s.pc = "done" THEN rest
                               ELSE [inflight EXCEPT ![i].pc = s.pc]
                /\ last' = IF s.pc = "done"
                           THEN Call(q.op,
                                     IF q.op = "POST /items"
                                     THEN new_id ELSE q.item_id,
                                     q.arg, Some(t), TRUE, s.ret,
                                     IF s.raised THEN 500 ELSE 200, None)
                           ELSE Call("suspends", q.item_id, q.arg, None, TRUE,
                                     None, 0, None)
                /\ nCreated' = IF q.op = "POST /items"
                               THEN nCreated + 1 ELSE nCreated
                /\ nDeleted' = IF q.op = "DELETE /items/{id}" /\ s.pc = "done"
                                  /\ ~s.raised /\ s.ret
                               THEN nDeleted + 1 ELSE nDeleted
                /\ UNCHANGED <<birth, fresh, updated, deleted, held,
                               submitted>>

\* The calls that can change the item collection.
Mutators ==
    \/ \E body \in Bodies : PostItem(body)
    \/ \E item_id \in PathIds, item_update \in ItemCreates :
         UpdateItem(item_id, item_update)
    \/ \E item_id \in PathIds : DeleteItem(item_id)

\* The item service and its routes. The calls left out of a specification
\* below read the item collection or nothing at all; each specification has
\* every call that changes it.
Next ==
    \/ Mutators
    \/ ListItems
    \/ \E item_id \in PathIds : GetItem(item_id)

Spec == Init /\ [][Next]_vars

\* Request validation in front of the item service.
NextValidation ==
    \/ Mutators
    \/ \E body \in Bodies : RejectBody(body)

SpecValidation == Init /\ [][NextValidation]_vars

\* The probes and the welcome message beside the item service.
NextProbes ==
    \/ Mutators
    \/ Root
    \/ HealthCheck
    \/ ReadinessCheck
    \/ LivenessCheck

SpecProbes == Init /\ [][NextProbes]_vars

\* The item service with a caller that keeps what it was returned.
NextAlias ==
    \/ Next
    \/ \E item_id \in UUIDs, payload \in ItemCreates :
         CallerMutatesItem(item_id, payload)
    \/ CallerMutatesList

SpecAlias == Init /\ [][NextAlias]_vars

\* Requests arriving at any time, their handlers run by the event loop in
\* any order.
NextConcurrent ==
    \/ \E q \in Requests : Submit(q)
    \/ \E i \in 1..Len(inflight) : RunHandler(i)

SpecConcurrent == Init /\ [][NextConcurrent]_vars

\* ==================================================================== claims
StoredIds == Keys(items)

\* C1: the number of items list_items returns, and the total of GET /items
\* (the length of its items), is the number of create_item calls minus the
\* number of delete_item calls that returned True; update_item and failed
\* deletes, which count as neither, leave it alone.
C1_ListCountIsCreatesMinusDeletes ==
    /\ Len(list_items(items)) = nCreated - nDeleted
    /\ IsOp(last, "GET /items") =>
         /\ Len(last.ret) = nCreated - nDeleted
         /\ last.resp.total = Len(last.resp.items)
         /\ last.resp.total = nCreated - nDeleted

C1_Witness ==
    /\ IsOp(last, "GET /items")
    /\ nCreated = 2
    /\ nDeleted = 1
    /\ updated # {}
    /\ last.resp.total = 1

\* What C2 says of an update_item call on a stored id, but for the order of
\* the timestamps: the item stored and returned keeps id and created_at, takes
\* name, description and tags from the payload, and has updated_at set.
UpdateKeepsIdentity(old, new, payload) ==
    /\ new.id = old.id
    /\ new.created_at = old.created_at
    /\ new.name = payload.name
    /\ new.description = payload.description
    /\ new.tags = payload.tags
    /\ new.updated_at # None

\* A step that is an update_item call on an id the store holds.
UpdateOfStored ==
    /\ IsOp(last', "update_item")
    /\ last'.item_id \in StoredIds

\* C2 as stated: the new updated_at is at least the previous one.
C2_UpdatedAtNeverDecreases ==
    [][UpdateOfStored =>
         LET old == get_item(items, last'.item_id)[1]
         IN  /\ last'.ret # None
             /\ get_item(items', last'.item_id) = last'.ret
             /\ UpdateKeepsIdentity(old, last'.ret[1], last'.arg)
             /\ old.updated_at # None =>
                  last'.ret[1].updated_at[1] >= old.updated_at[1]]_vars

\* C2 as amended: the new updated_at is the clock reading the call took; it
\* is at least the previous updated_at exactly when that reading is.
C2_UpdatedAtIsClockReading ==
    [][UpdateOfStored =>
         LET old == get_item(items, last'.item_id)[1]
         IN  /\ last'.ret # None
             /\ get_item(items', last'.item_id) = last'.ret
             /\ UpdateKeepsIdentity(old, last'.ret[1], last'.arg)
             /\ last'.ret[1].updated_at = last'.t
             /\ last'.t[1] \in utcnow
             /\ Len(items') = Len(items)]_vars

C2_Witness ==
    /\ IsOp(last, "update_item")
    /\ last.ret # None
    /\ Len(items) = 2
    /\ last.ret[1].updated_at[1] < last.ret[1].created_at
    /\ last.ret[1].name # items[1].val.name

\* C3: every stored item is keyed by its own id and no two stored items share
\* an id (a create never replaces an entry, so the entries are as many as the
\* creates less the deletes); an item's created_at is the one it was given
\* at creation; its updated_at is absent exactly when no update_item has
\* succeeded on its id since.
C3_StoreInvariant ==
    /\ \A i \in 1..Len(items) : items[i].key = items[i].val.id
    /\ \A i, j \in 1..Len(items) : items[i].val.id = items[j].val.id => i = j
    /\ Cardinality(StoredIds) = nCreated - nDeleted
    /\ DOMAIN birth = StoredIds
    /\ \A i \in 1..Len(items) :
         /\ items[i].val.created_at = birth[items[i].key]
         /\ (items[i].val.updated_at = None) <=> (items[i].key \notin updated)

C3_Witness ==
    /\ Len(items) = 2
    /\ items[1].key \in updated
    /\ items[2].key \notin updated
    /\ items[1].val.updated_at # Some(items[1].val.created_at)
    /\ deleted = {}

\* C4: once delete_item(id) has returned True, get_item(id) returns None (GET
\* answers 404), update_item(id, ...) returns None and no list_items result
\* holds the id, whatever was called in between.
C4_DeletedStaysGone ==
    /\ \A id \in deleted :
         /\ id \notin StoredIds
         /\ get_item(items, id) = None
    /\ (IsOp(last, "GET /items/{id}") /\ last.item_id \in deleted) =>
         (last.ret = None /\ last.status = 404)
    /\ (IsOp(last, "update_item") /\ last.item_id \in deleted) =>
         last.ret = None
    /\ IsOp(last, "GET /items") =>
         \A i \in 1..Len(last.ret) : last.ret[i].id \notin deleted

C4_Witness ==
    /\ IsOp(last, "GET /items/{id}")
    /\ last.item_id \in deleted
    /\ last.status = 404
    /\ Len(items) = 1
    /\ nCreated = 2

\* C5: on an id the store does not hold, delete_item returns False (404),
\* get_item returns None (404) and update_item returns None; none raises and
\* each leaves the item collection as it was.
C5_AbsentIdIsNotFound ==
    [][(last'.item_id \notin StoredIds) =>
         /\ IsOp(last', "DELETE /items/{id}") =>
              (last'.ret = FALSE /\ last'.status = 404 /\ items' = items)
         /\ IsOp(last', "GET /items/{id}") =>
              (last'.ret = None /\ last'.status = 404 /\ items' = items)
         /\ IsOp(last', "update_item") =>
              (last'.ret = None /\ last'.status = 0 /\ items' = items)]_vars

C5_Witness ==
    /\ IsOp(last, "DELETE /items/{id}")
    /\ last.ret = FALSE
    /\ last.item_id \in deleted
    /\ Len(items) = 1

\* C6: create_item returns an item with the payload's name, description and
\* tags, an id, a created_at and no updated_at (201); until that id is updated
\* or deleted, get_item on it returns an item equal to it in every field.
C6_CreateThenGet ==
    /\ (IsOp(last, "POST /items") /\ last.status = 201) =>
         LET item == last.ret[1]
             payload == ItemCreate(last.arg)
         IN  /\ item.name = payload.name
             /\ item.description = payload.description
             /\ item.tags = payload.tags
             /\ item.id \in UUIDs
             /\ item.id = last.item_id
             /\ Some(item.created_at) = last.t
             /\ item.updated_at = None
             /\ get_item(items, item.id) = Some(item)
    /\ \A id \in DOMAIN fresh :
         /\ get_item(items, id) = Some(fresh[id])
         /\ fresh[id].updated_at = None
    /\ (IsOp(last, "GET /items/{id}") /\ last.item_id \in DOMAIN fresh) =>
         /\ last.status = 200
         /\ last.ret = Some(fresh[last.item_id])
         /\ last.resp = fresh[last.item_id]

C6_Witness ==
    /\ IsOp(last, "GET /items/{id}")
    /\ last.item_id \in DOMAIN fresh
    /\ last.status = 200
    /\ last.resp.description # None
    /\ Len(items) = 2

\* The bodies C9 calls invalid, in its own words: name missing, shorter than 1
\* or longer than 100 characters, or description longer than 500 characters.
ViolatesSchema(body) ==
    IF body.name = None THEN TRUE
    ELSE IF len(body.name[1]) < 1 \/ len(body.name[1]) > 100 THEN TRUE
    ELSE IF body.description = None THEN FALSE
    ELSE len(body.description[1]) > 500

\* C9: POST /items with a body that violates the schema is answered 422,
\* create_item is not called and the item collection is unchanged; a body that
\* satisfies the schema is answered 201 and adds exactly one item.
C9_ValidationBeforeService ==
    [][IsOp(last', "POST /items") =>
         IF ViolatesSchema(last'.arg)
         THEN /\ last'.status = 422
              /\ ~last'.called
              /\ items' = items
              /\ nCreated' = nCreated
         ELSE /\ last'.status = 201
              /\ last'.called
              /\ Len(items') = Len(items) + 1
              /\ StoredIds \subseteq Keys(items')
              /\ nCreated' = nCreated + 1]_vars

C9_Witness ==
    /\ IsOp(last, "POST /items")
    /\ last.status = 422
    /\ last.arg.name # None
    /\ last.arg.description # None
    /\ Len(items) = 2

\* C10: whatever the item store holds, GET /health answers 200 with status
\* "healthy" and a version, GET /live answers 200 with status "alive", GET
\* /ready answers 200 with ready true exactly when every check is true; no
\* probe changes the item collection.
ProbeOps == {"GET /health", "GET /ready", "GET /live"}
C10_Probes ==
    /\ [](IsOp(last, "GET /health") =>
            /\ last.status = 200
            /\ last.resp.status = "healthy"
            /\ "version" \in DOMAIN last.resp
            /\ ~last.called)
    /\ [](IsOp(last, "GET /live") =>
            /\ last.status = 200
            /\ last.resp.status = "alive"
            /\ ~last.called)
    /\ [](IsOp(last, "GET /ready") =>
            /\ last.status = 200
            /\ last.resp.ready <=>
                 (\A k \in DOMAIN last.resp.checks : last.resp.checks[k])
            /\ ~last.called)
    /\ [][last'.op \in ProbeOps =>
            (items' = items /\ issued' = issued)]_vars

C10_Witness ==
    /\ IsOp(last, "GET /ready")
    /\ last.resp.ready
    /\ Len(items) = 2
    /\ updated # {}

\* The calls through which C7 lets the stored contents change.
MutatorOps == {"POST /items", "update_item", "DELETE /items/{id}"}
CallerItemOp == "caller: item.name, .description, .tags = ..."
CallerListOp == "caller: list.pop()"

\* C7 as stated: what the service returns are copies, so the stored contents
\* (what later get_item and list_items calls return) change only through
\* create_item, update_item and delete_item, not when a caller mutates a
\* returned Item or list.
C7_ReturnedValuesAreCopies ==
    [][items' # items => last'.op \in MutatorOps]_vars

\* C7 as amended: the list list_items returns is a new list, and changing it
\* leaves the store alone; the Items returned are the stored objects (every
\* stored object is one a caller was handed), so a caller's assignment to a
\* returned Item's fields is what get_item and list_items return from then
\* on; the stored contents change through create_item, update_item,
\* delete_item and such assignments only.
C7_ReturnedItemsAreStoredObjects ==
    /\ [](held = StoredIds)
    /\ [][IsOp(last', CallerItemOp) =>
            /\ get_item(items', last'.item_id) = last'.ret
            /\ get_item(items', last'.item_id) # get_item(items, last'.item_id)
            /\ \E i \in 1..Len(items') : list_items(items')[i] = last'.ret[1]
            /\ Keys(items') = Keys(items)]_vars
    /\ [][IsOp(last', CallerListOp) => items' = items]_vars
    /\ [][items' # items =>
            last'.op \in MutatorOps \cup {CallerItemOp}]_vars

C7_Witness ==
    /\ IsOp(last, CallerItemOp)
    /\ last.item_id \notin updated
    /\ get_item(items, last.item_id) = last.ret
    /\ last.ret[1].updated_at = None
    /\ last.ret[1].name = last.arg.name
    /\ Len(items) = 2

\* What a call does when nothing else runs between its start and its return.
Sequential(op, d, item_id, arg, t) ==
    CASE op = "POST /items" -> create_item(d, arg, item_id, t)
      [] op = "GET /items/{id}" ->
           [store |-> d, ret |-> get_item(d, item_id), raised |-> FALSE]
      [] op = "update_item" -> update_item(d, item_id, arg, t)
      [] op = "DELETE /items/{id}" -> delete_item(d, item_id)

\* C8: with several requests in flight, every service call takes effect in
\* one turn of the event loop: no handler is ever suspended between its
\* presence check and its write, each call returns and leaves the store
\* exactly as the same call made alone on the store it found, none raises,
\* and so the deletes that returned True never outnumber the creates.
C8_CallsAreAtomic ==
    /\ [](\A i \in 1..Len(inflight) : inflight[i].pc = "ready")
    /\ [][last'.op \in ServiceOps =>
            LET alone == Sequential(last'.op, items, last'.item_id, last'.arg,
                                    last'.t[1])
            IN  /\ items' = alone.store
                /\ last'.ret = alone.ret
                /\ ~alone.raised
                /\ last'.status = 200]_vars
    /\ [](Len(items) = nCreated - nDeleted)

C8_Witness ==
    /\ IsOp(last, "DELETE /items/{id}")
    /\ last.ret = TRUE
    /\ Len(inflight) = 1
    /\ inflight[1].op = "DELETE /items/{id}"
    /\ inflight[1].item_id = last.item_id
    /\ submitted = MaxReq

====
